---------------------------- MODULE Spec2Model ----------------------------
(***************************************************************************)
(* c-chess-cli, position.c: the chess position (Position), its FEN codec   *)
(* (pos_set / pos_get), move application (pos_move), the derived data      *)
(* (finish) and the SAN writer (pos_move_to_san).                          *)
(*                                                                         *)
(* A bitboard is a set of squares 0..63 (A1 = 0, H8 = 63).  Text is a      *)
(* sequence of one-character strings.  The 64-bit Zobrist key is a set of  *)
(* constant indices: XOR of constants is symmetric difference of index     *)
(* sets, so two keys are equal here exactly when they are equal for every  *)
(* choice of the random constants.                                         *)
(*                                                                         *)
(* The assertions of the source (assert, BOUNDS) are live: an operation    *)
(* that trips one ends with ret = "assert" ("assert_finish" for the        *)
(* assertions of finish): the process aborts there.                        *)
(***************************************************************************)
EXTENDS Integers, Sequences, FiniteSets, TLC

\* ---------------------------------------------------------------- constants

WHITE ==
    0
BLACK ==
    1
NB_COLOR ==
    2
KNIGHT ==
    0
BISHOP ==
    1
ROOK ==
    2
QUEEN ==
    3
KING ==
    4
PAWN ==
    5
NB_PIECE ==
    6
NB_SQUARE ==
    64
NB_FILE ==
    8
NB_RANK ==
    8
RANK_1 ==
    0
RANK_3 ==
    2
RANK_6 ==
    5
RANK_8 ==
    7
FILE_A ==
    0
FILE_C ==
    2
FILE_D ==
    3
FILE_F ==
    5
FILE_G ==
    6
FILE_H ==
    7
UP ==
    8
DOWN ==
    -8
RIGHT ==
    1
LEFT ==
    -1

Squares == 0 .. (NB_SQUARE - 1)
Colors == {WHITE, BLACK}
Pieces == KNIGHT .. PAWN

\* -------------------------------------------------- bitboard collaborator

opposite(color) == 1 - color

push_inc(color) == IF color = WHITE THEN UP ELSE DOWN

file_of(square) == square % NB_FILE

rank_of(square) == square \div NB_FILE

\* BOUNDS(rank, NB_RANK); BOUNDS(file, NB_FILE)
square_ok(rank, file) == rank \in 0 .. (NB_RANK - 1) /\ file \in 0 .. (NB_FILE - 1)

square_from(rank, file) == NB_FILE * rank + file

Abs(x) == IF x < 0 THEN -x ELSE x

Sign(x) == IF x < 0 THEN -1 ELSE IF x > 0 THEN 1 ELSE 0

Min(S) == CHOOSE x \in S : \A y \in S : x <= y

Max(S) == CHOOSE x \in S : \A y \in S : x >= y

bb_lsb(b) == Min(b)

bb_msb(b) == Max(b)

bb_count(b) == Cardinality(b)

bb_several(b) == Cardinality(b) > 1

bb_test(b, square) == square \in b

Rank(r) == {s \in Squares : rank_of(s) = r}

File(f) == {s \in Squares : file_of(s) = f}

\* Squares a and b on one rank or file / on one diagonal (a # b).
OnLine(a, b) == a # b /\ (rank_of(a) = rank_of(b) \/ file_of(a) = file_of(b))

OnDiag(a, b) == a # b /\ Abs(rank_of(a) - rank_of(b)) = Abs(file_of(a) - file_of(b))

\* The squares strictly after a up to and including b, when the two are aligned.
SegmentOf(a, b) ==
    IF ~(OnLine(a, b) \/ OnDiag(a, b)) THEN {}
    ELSE LET dr == Sign(rank_of(b) - rank_of(a))
             df == Sign(file_of(b) - file_of(a))
             n  == Max({Abs(rank_of(b) - rank_of(a)), Abs(file_of(b) - file_of(a))})
         IN  {square_from(rank_of(a) + k * dr, file_of(a) + k * df) : k \in 1 .. n}

\* The whole ray from a (excluded) through b to the edge of the board.
RayOf(a, b) ==
    IF ~(OnLine(a, b) \/ OnDiag(a, b)) THEN {}
    ELSE LET dr == Sign(rank_of(b) - rank_of(a))
             df == Sign(file_of(b) - file_of(a))
         IN  {square_from(rank_of(a) + k * dr, file_of(a) + k * df) :
                 k \in {j \in 1 .. 7 : square_ok(rank_of(a) + j * dr, file_of(a) + j * df)}}

Segment == [a \in Squares |-> [b \in Squares |-> SegmentOf(a, b)]]

\* Ray[a][b] is read with b = a + RIGHT or a + LEFT, which leaves 0..63 at the corners.
Ray == [a \in Squares |-> [b \in -1 .. NB_SQUARE |->
          IF b \in Squares THEN RayOf(a, b) ELSE {}]]

KingAttacks == [s \in Squares |->
    {t \in Squares : t # s /\ Abs(rank_of(t) - rank_of(s)) <= 1
                           /\ Abs(file_of(t) - file_of(s)) <= 1}]

KnightAttacks == [s \in Squares |->
    {t \in Squares : {Abs(rank_of(t) - rank_of(s)), Abs(file_of(t) - file_of(s))} = {1, 2}}]

\* PawnAttacks[color][s]: the squares a pawn of 'color' on s captures onto.
PawnAttacks == [c \in Colors |-> [s \in Squares |->
    {t \in Squares : rank_of(t) = rank_of(s) + (IF c = WHITE THEN 1 ELSE -1)
                     /\ Abs(file_of(t) - file_of(s)) = 1}]]

RookLines == [s \in Squares |-> {t \in Squares : OnLine(s, t)}]

BishopLines == [s \in Squares |-> {t \in Squares : OnDiag(s, t)}]

\* Occupancy-dependent slider attacks: the first blocker on each ray is attacked.
bb_rook_attacks(square, occ) ==
    {t \in RookLines[square] : (Segment[square][t] \ {t}) \cap occ = {}}

bb_bishop_attacks(square, occ) ==
    {t \in BishopLines[square] : (Segment[square][t] \ {t}) \cap occ = {}}

\* bb_shift(b, i): the squares of b moved by i, those leaving the board dropped.
bb_shift(b, i) == {s + i : s \in b} \cap Squares


\* ------------------------------------------------------------ Zobrist keys

\* The constants of zobrist_init, each named by its index in generation order
\* class: placement 0..767, castling 768..831, en passant 832..896, turn 897.
ZobristKey(color, piece, square) == color * 384 + piece * NB_SQUARE + square

ZobristCastling(square) == 768 + square

ZobristEnPassant(square) == 832 + square

ZobristTurn ==
    897

\* a ^ b on keys
Xor(a, b) == (a \ b) \cup (b \ a)

zobrist_castling(castleRooks) == {ZobristCastling(s) : s \in castleRooks}

\* ---------------------------------------------------------------- Position

NoMove == [from |-> 0, to |-> 0, prom |-> 0]

move_build(from, to, prom) == [from |-> from, to |-> to, prom |-> prom]

\* (Position){0}
ZeroPosition ==
    [byColor |-> [c \in Colors |-> {}], byPiece |-> [p \in Pieces |-> {}],
     turn |-> WHITE, castleRooks |-> {}, epSquare |-> 0, rule50 |-> 0, fullMove |-> 0,
     key |-> {}, chess960 |-> FALSE, lastMove |-> NoMove,
     attacked |-> {}, checkers |-> {}, pins |-> {}]

pos_pieces(pos) == pos.byColor[WHITE] \cup pos.byColor[BLACK]

pos_pieces_cp(pos, color, piece) == pos.byColor[color] \cap pos.byPiece[piece]

pos_pieces_cpp(pos, color, p1, p2) ==
    pos.byColor[color] \cap (pos.byPiece[p1] \cup pos.byPiece[p2])

pos_king_square(pos, color) == bb_lsb(pos_pieces_cp(pos, color, KING))

pos_color_on(pos, square) == IF bb_test(pos.byColor[WHITE], square) THEN WHITE ELSE BLACK

\* The first piece type whose set holds the square, NB_PIECE if none.
pos_piece_on(pos, square) ==
    IF \E p \in Pieces : bb_test(pos.byPiece[p], square)
    THEN Min({p \in Pieces : bb_test(pos.byPiece[p], square)})
    ELSE NB_PIECE

clear_square(pos, color, piece, square) ==
    [pos EXCEPT !.byColor[color] = @ \ {square},
                !.byPiece[piece] = @ \ {square},
                !.key = Xor(@, {ZobristKey(color, piece, square)})]

set_square(pos, color, piece, square) ==
    [pos EXCEPT !.byColor[color] = @ \cup {square},
                !.byPiece[piece] = @ \cup {square},
                !.key = Xor(@, {ZobristKey(color, piece, square)})]

pos_move_is_capture(pos, m) == bb_test(pos.byColor[opposite(pos.turn)], m.to)

pos_move_is_castling(pos, m) == bb_test(pos.byColor[pos.turn], m.to)

\* ------------------------------------------------------------------ finish

\* finish_pins without the test that a single piece stands in between.
finish_pins_several(pos) ==
    LET us == pos.turn
        them == opposite(us)
        king == pos_king_square(pos, us)
        pinners == (pos_pieces_cpp(pos, them, ROOK, QUEEN) \cap bb_rook_attacks(king, {}))
                   \cup (pos_pieces_cpp(pos, them, BISHOP, QUEEN) \cap bb_bishop_attacks(king, {}))
        skewered(pinner) == ((Segment[king][pinner] \cap pos_pieces(pos)) \ {king}) \ {pinner}
    IN  UNION {skewered(pinner) : pinner \in
                 {q \in pinners : skewered(q) \cap pos.byColor[us] # {}}}

finish_pins(pos) ==
    LET us == pos.turn
        them == opposite(us)
        king == pos_king_square(pos, us)
        pinners == (pos_pieces_cpp(pos, them, ROOK, QUEEN) \cap bb_rook_attacks(king, {}))
                   \cup (pos_pieces_cpp(pos, them, BISHOP, QUEEN) \cap bb_bishop_attacks(king, {}))
        skewered(pinner) == ((Segment[king][pinner] \cap pos_pieces(pos)) \ {king}) \ {pinner}
    IN  UNION {skewered(pinner) : pinner \in
                 {q \in pinners : ~bb_several(skewered(q))
                                  /\ skewered(q) \cap pos.byColor[us] # {}}}

finish_attacked(pos) ==
    LET us == pos.turn
        them == opposite(us)
        pawns == pos_pieces_cp(pos, them, PAWN)
        occ == Xor(pos_pieces(pos), pos_pieces_cp(pos, opposite(them), KING))
    IN  KingAttacks[pos_king_square(pos, them)]
        \cup UNION {KnightAttacks[n] : n \in pos_pieces_cp(pos, them, KNIGHT)}
        \cup bb_shift(pawns \ File(FILE_A), push_inc(them) + LEFT)
        \cup bb_shift(pawns \ File(FILE_H), push_inc(them) + RIGHT)
        \cup UNION {bb_rook_attacks(r, occ) : r \in pos_pieces_cpp(pos, them, ROOK, QUEEN)}
        \cup UNION {bb_bishop_attacks(b, occ) : b \in pos_pieces_cpp(pos, them, BISHOP, QUEEN)}

finish_checkers(pos, attacked) ==
    LET us == pos.turn
        them == opposite(us)
        king == pos_king_square(pos, us)
    IN  IF bb_test(attacked, king)
        THEN (pos_pieces_cp(pos, them, PAWN) \cap PawnAttacks[us][king])
             \cup (pos_pieces_cp(pos, them, KNIGHT) \cap KnightAttacks[king])
             \cup (pos_pieces_cpp(pos, them, ROOK, QUEEN)
                   \cap bb_rook_attacks(king, pos_pieces(pos)))
             \cup (pos_pieces_cpp(pos, them, BISHOP, QUEEN)
                   \cap bb_bishop_attacks(king, pos_pieces(pos)))
        ELSE {}

\* The two assertions of finish, made only when the king of the side to move is attacked.
finish_asserts(pos, attacked, checkers) ==
    LET us == pos.turn
        them == opposite(us)
        king == pos_king_square(pos, us)
    IN  bb_test(attacked, king) =>
          /\ pos_pieces_cp(pos, them, KING) \cap KingAttacks[king] = {}
          /\ checkers # {} /\ bb_count(checkers) <= 2

\* finish: [ret |-> "true", or "assert_finish" when one of its assertions fails,
\*          pos |-> the position with its derived fields].
finish(pos) ==
    LET attacked == finish_attacked(pos)
        checkers == finish_checkers(pos, attacked)
    IN  [ret |-> IF finish_asserts(pos, attacked, checkers) THEN "true" ELSE "assert_finish",
         pos |-> [pos EXCEPT !.pins = finish_pins(pos),
                             !.attacked = attacked,
                             !.checkers = checkers]]

\* ---------------------------------------------------------------- pos_move

\* rule50 is a uint8_t, fullMove a uint16_t
U8(x) == x % 256

U16(x) == x % 65536

\* Capture piece on to square (if any)
move_capture(pos, us, piece, to) ==
    LET capture == pos_piece_on(pos, to)
    IN  IF capture # NB_PIECE
        THEN [clear_square(pos, pos_color_on(pos, to), capture, to)
                EXCEPT !.rule50 = 0, !.castleRooks = @ \ {to}]
        ELSE pos

\* The pawn branch: rule50, epSquare, en-passant capture, promotion.
move_pawn(pos, before, us, from, to, prom) ==
    LET them == opposite(us)
        push == push_inc(us)
        p1 == [pos EXCEPT !.rule50 = 0,
                 !.epSquare = IF to = from + 2 * push
                                 /\ PawnAttacks[us][from + push]
                                      \cap pos_pieces_cp(pos, them, PAWN) # {}
                              THEN from + push ELSE @]
    IN  IF to = before.epSquare THEN clear_square(p1, them, PAWN, to - push)
        ELSE IF rank_of(to) = RANK_8 \/ rank_of(to) = RANK_1
             THEN set_square(clear_square(p1, us, PAWN, to), us, prom, to)
             ELSE p1

\* move_king that leaves the king on the rook's square when castling.
move_king_no_clear(pos, before, us, from, to) ==
    LET p1 == [pos EXCEPT !.castleRooks = @ \ Rank(us * RANK_8)]
        rank == rank_of(from)
    IN  IF bb_test(before.byColor[us], to)
        THEN set_square(
               set_square(p1, us, KING,
                          square_from(rank, IF to > from THEN FILE_G ELSE FILE_C)),
               us, ROOK, square_from(rank, IF to > from THEN FILE_F ELSE FILE_D))
        ELSE p1

\* move_king that keeps the castling rights of the moving side.
move_king_keep_rights(pos, before, us, from, to) ==
    LET rank == rank_of(from)
    IN  IF bb_test(before.byColor[us], to)
        THEN set_square(
               set_square(clear_square(pos, us, KING, to), us, KING,
                          square_from(rank, IF to > from THEN FILE_G ELSE FILE_C)),
               us, ROOK, square_from(rank, IF to > from THEN FILE_F ELSE FILE_D))
        ELSE pos

\* The king branch: lose all castling rights; a KxR move relocates king and rook.
move_king(pos, before, us, from, to) ==
    LET p1 == [pos EXCEPT !.castleRooks = @ \ Rank(us * RANK_8)]
        rank == rank_of(from)
    IN  IF bb_test(before.byColor[us], to)
        THEN set_square(
               set_square(clear_square(p1, us, KING, to), us, KING,
                          square_from(rank, IF to > from THEN FILE_G ELSE FILE_C)),
               us, ROOK, square_from(rank, IF to > from THEN FILE_F ELSE FILE_D))
        ELSE p1

\* The assertions of pos_move on its arguments (and the BOUNDS of the squares it sets).
move_asserts(before, m) ==
    LET us == before.turn
        piece == pos_piece_on(before, m.from)
        capture == pos_piece_on(before, m.to)
    IN  /\ piece # NB_PIECE
        /\ capture # NB_PIECE =>
             /\ capture # KING
             /\ ~bb_test(before.byColor[us], m.to)
                \/ (bb_test(before.castleRooks, m.to) /\ piece = KING)
        /\ (piece = PAWN /\ m.to # before.epSquare
              /\ (rank_of(m.to) = RANK_8 \/ rank_of(m.to) = RANK_1)) => m.prom \in Pieces
        /\ (piece = KING /\ bb_test(before.byColor[us], m.to)) => capture = ROOK

\* move_epilogue with the en-passant part of the key update left out.
move_epilogue_no_ep(pos, before, them, m) ==
    [pos EXCEPT !.turn = them,
                !.key = Xor(Xor(@, {ZobristTurn}),
                            zobrist_castling(Xor(before.castleRooks, pos.castleRooks))),
                !.fullMove = U16(@ + (IF them = WHITE THEN 1 ELSE 0)),
                !.lastMove = m]

\* The fields pos_move writes after the piece-specific part.
move_epilogue(pos, before, them, m) ==
    [pos EXCEPT !.turn = them,
                !.key = Xor(Xor(Xor(@, {ZobristTurn}),
                                Xor({ZobristEnPassant(before.epSquare)},
                                    {ZobristEnPassant(pos.epSquare)})),
                            zobrist_castling(Xor(before.castleRooks, pos.castleRooks))),
                !.fullMove = U16(@ + (IF them = WHITE THEN 1 ELSE 0)),
                !.lastMove = m]

\* pos_move(pos, before, m): [ret |-> "true", "assert" or "assert_finish",
\*                            pos |-> before + play(m)].
pos_move(before, m) ==
    IF ~move_asserts(before, m) THEN [ret |-> "assert", pos |-> before]
    ELSE
    LET p0 == [before EXCEPT !.rule50 = U8(@ + 1), !.epSquare = NB_SQUARE]
        us == p0.turn
        them == opposite(us)
        piece == pos_piece_on(p0, m.from)
        p1 == move_capture(p0, us, piece, m.to)
        moved == set_square(clear_square(p1, us, piece, m.from), us, piece, m.to)
        p2 == IF piece <= QUEEN THEN [moved EXCEPT !.castleRooks = @ \ {m.from}]
              ELSE IF piece = PAWN THEN move_pawn(moved, before, us, m.from, m.to, m.prom)
              ELSE move_king(moved, before, us, m.from, m.to)
    IN  finish(move_epilogue(p2, before, them, m))


\* -------------------------------------------------------------------- text

Digits == <<"0", "1", "2", "3", "4", "5", "6", "7", "8", "9">>

UpperLetters == <<"A", "B", "C", "D", "E", "F", "G", "H", "I", "J", "K", "L", "M",
                  "N", "O", "P", "Q", "R", "S", "T", "U", "V", "W", "X", "Y", "Z">>

LowerLetters == <<"a", "b", "c", "d", "e", "f", "g", "h", "i", "j", "k", "l", "m",
                  "n", "o", "p", "q", "r", "s", "t", "u", "v", "w", "x", "y", "z">>

Range(seq) == {seq[i] : i \in 1 .. Len(seq)}

\* strchr(seq, c) - seq: the 0-based offset of c in seq, -1 when it is not there
IndexOf(seq, c) ==
    IF c \in Range(seq) THEN Min({i \in 1 .. Len(seq) : seq[i] = c}) - 1 ELSE -1

isdigit(c) == c \in Range(Digits)

isupper(c) == c \in Range(UpperLetters)

islower(c) == c \in Range(LowerLetters)

toupper(c) == IF islower(c) THEN UpperLetters[IndexOf(LowerLetters, c) + 1] ELSE c

\* The character code (ASCII); "" stands for the terminating '\0'.
Ord(c) ==
    IF isdigit(c) THEN 48 + IndexOf(Digits, c)
    ELSE IF isupper(c) THEN 65 + IndexOf(UpperLetters, c)
    ELSE IF islower(c) THEN 97 + IndexOf(LowerLetters, c)
    ELSE IF c = " " THEN 32
    ELSE IF c = "+" THEN 43
    ELSE IF c = "-" THEN 45
    ELSE IF c = "." THEN 46
    ELSE IF c = "/" THEN 47
    ELSE IF c = "=" THEN 61
    ELSE 0

Chr(n) ==
    IF n \in 48 .. 57 THEN Digits[n - 47]
    ELSE IF n \in 65 .. 90 THEN UpperLetters[n - 64]
    ELSE IF n \in 97 .. 122 THEN LowerLetters[n - 96]
    ELSE IF n = 32 THEN " "
    ELSE IF n = 43 THEN "+"
    ELSE IF n = 45 THEN "-"
    ELSE IF n = 46 THEN "."
    ELSE IF n = 47 THEN "/"
    ELSE IF n = 61 THEN "="
    ELSE ""

\* buf[i] of a C string, i 0-based: the terminator at i = len
CharAt(str, i) == IF i < Len(str) THEN str[i + 1] ELSE ""

PieceLabel == [c \in Colors |->
    IF c = WHITE THEN <<"N", "B", "R", "Q", "K", "P", ".">>
                 ELSE <<"n", "b", "r", "q", "k", "p", ".">>]

\* A C string pointer: NULL, or the text it points at.
NullPtr == [null |-> TRUE, s |-> <<>>]

Ptr(s) == [null |-> FALSE, s |-> s]

\* s + strspn(s, " "): s without its leading spaces
SkipSpaces(s) ==
    LET others == {i \in 1 .. Len(s) : s[i] # " "}
    IN  IF others = {} THEN <<>> ELSE SubSeq(s, Min(others), Len(s))

\* strcspn(s, " "): the length of the part of s before its first space
TokenLen(s) ==
    LET spaces == {i \in 1 .. Len(s) : s[i] = " "}
    IN  IF spaces = {} THEN Len(s) ELSE Min(spaces) - 1

\* str_tok(s, &token, " "): [token, tail]; token is left as it was when s is NULL.
str_tok(p, token) ==
    IF p.null THEN [token |-> token, tail |-> NullPtr]
    ELSE LET s == SkipSpaces(p.s)
             n == TokenLen(s)
         IN  [token |-> SubSeq(s, 1, n),
              tail |-> IF n > 0 THEN Ptr(SubSeq(s, n + 1, Len(s))) ELSE NullPtr]

\* atoi on a token (no white space in it): optional sign, then the leading digits.
RECURSIVE DigitsValue(_, _)
DigitsValue(s, acc) ==
    IF s # <<>> /\ isdigit(Head(s))
    THEN DigitsValue(Tail(s), 10 * acc + (Ord(Head(s)) - 48))
    ELSE acc

atoi(s) ==
    IF s # <<>> /\ Head(s) = "-" THEN -DigitsValue(Tail(s), 0)
    ELSE IF s # <<>> /\ Head(s) = "+" THEN DigitsValue(Tail(s), 0)
    ELSE DigitsValue(s, 0)

\* printf("%i") of a value that is not negative
RECURSIVE IntToStr(_)
IntToStr(n) == IF n < 10 THEN <<Chr(48 + n)>> ELSE Append(IntToStr(n \div 10), Chr(48 + (n % 10)))

square_to_string(square) ==
    IF square = NB_SQUARE THEN <<"-">>
    ELSE <<Chr(file_of(square) + 97), Chr(rank_of(square) + 49)>>

\* string_to_square: [ok |-> the BOUNDS of square_from hold, sq |-> the square]
string_to_square(str) ==
    IF CharAt(str, 0) # "-"
    THEN LET rank == Ord(CharAt(str, 1)) - 49
             file == Ord(CharAt(str, 0)) - 97
         IN  [ok |-> square_ok(rank, file), sq |-> square_from(rank, file)]
    ELSE [ok |-> TRUE, sq |-> NB_SQUARE]


\* ----------------------------------------------------------------- pos_set

\* An early exit of pos_set: "false" is return false, "assert" a tripped assertion.
Fail(st, pos) == [ret |-> st, pos |-> pos]

\* The parts of text between the occurrences of the character sep.
Split(text, sep) ==
    LET at == {i \in 1 .. Len(text) : text[i] = sep}
        cut(k) == IF k = 0 THEN 0
                  ELSE IF k > Cardinality(at) THEN Len(text) + 1
                  ELSE CHOOSE i \in at : Cardinality({j \in at : j < i}) = k - 1
    IN  [k \in 1 .. (Cardinality(at) + 1) |-> SubSeq(text, cut(k - 1) + 1, cut(k) - 1)]

\* The placement loop between two '/': [st |-> "ok" / "false" / "assert", pos].
RECURSIVE ParseRank(_, _, _, _)
ParseRank(s, file, rank, pos) ==
    IF s = <<>> THEN [st |-> "ok", pos |-> pos]
    ELSE LET c == Head(s)
         IN  IF Ord(c) \in Ord("1") .. Ord("8")
             THEN IF file + (Ord(c) - Ord("0")) > NB_FILE
                  THEN [st |-> "false", pos |-> pos]
                  ELSE ParseRank(Tail(s), file + (Ord(c) - Ord("0")), rank, pos)
             ELSE IF c \notin {"n", "b", "r", "q", "k", "p", "N", "B", "R", "Q", "K", "P"}
                  THEN [st |-> "false", pos |-> pos]
             ELSE LET color == IF islower(c) THEN BLACK ELSE WHITE
                      piece == IndexOf(PieceLabel[color], c)
                  IN  IF ~square_ok(rank, file)
                      THEN [st |-> "assert", pos |-> pos]
                      ELSE ParseRank(Tail(s), file + 1, rank,
                                     set_square(pos, color, piece, square_from(rank, file)))

\* The placement loop: a '/' steps to the next rank down and back to file a.
\* [st |-> "ok" / "false" / "assert", rank |-> the rank the loop ends on, pos].
RECURSIVE ParseRanks(_, _, _, _)
ParseRanks(parts, i, rank, pos) ==
    LET r == ParseRank(parts[i], FILE_A, rank, pos)
    IN  IF r.st # "ok" \/ i = Len(parts) THEN [st |-> r.st, rank |-> rank, pos |-> r.pos]
        ELSE ParseRanks(parts, i + 1, rank - 1, r.pos)

ParsePlacement(token, rank, pos) == ParseRanks(Split(token, "/"), 1, rank, pos)

\* The castling loop: [st |-> "ok" / "false" / "assert", pos].
RECURSIVE ParseCastling(_, _)
ParseCastling(s, pos) ==
    IF s = <<>> THEN [st |-> "ok", pos |-> pos]
    ELSE LET c == Head(s)
             rank == IF isupper(c) THEN RANK_1 ELSE RANK_8
             uc == toupper(c)
             rooks == Rank(rank) \cap pos.byPiece[ROOK]
         IN  IF uc = "K" \/ uc = "Q"
             THEN IF rooks = {} THEN [st |-> "assert", pos |-> pos]
                  ELSE ParseCastling(Tail(s),
                         [pos EXCEPT !.castleRooks =
                            @ \cup {IF uc = "K" THEN bb_msb(rooks) ELSE bb_lsb(rooks)}])
             ELSE IF Ord(uc) \in Ord("A") .. Ord("H")
             THEN ParseCastling(Tail(s),
                    [pos EXCEPT !.castleRooks = @ \cup {square_from(rank, Ord(uc) - Ord("A"))}])
             ELSE IF c # "-" \/ pos.castleRooks # {} \/ Tail(s) # <<>>
             THEN [st |-> "false", pos |-> pos]
             ELSE ParseCastling(Tail(s), pos)

\* Verify piece counts
verify_counts(pos) ==
    \A color \in Colors :
        ~ (\/ bb_count(pos_pieces_cpp(pos, color, KNIGHT, PAWN)) > 10
           \/ bb_count(pos_pieces_cpp(pos, color, BISHOP, PAWN)) > 10
           \/ bb_count(pos_pieces_cpp(pos, color, ROOK, PAWN)) > 10
           \/ bb_count(pos_pieces_cpp(pos, color, QUEEN, PAWN)) > 9
           \/ bb_count(pos_pieces_cp(pos, color, PAWN)) > 8
           \/ bb_count(pos_pieces_cp(pos, color, KING)) # 1
           \/ bb_count(pos.byColor[color]) > 16)

\* Verify pawn ranks
verify_pawns(pos) == pos.byPiece[PAWN] \cap (Rank(RANK_1) \cup Rank(RANK_8)) = {}

\* Verify castle rooks
verify_castling(pos) ==
    pos.castleRooks # {} =>
      /\ pos.castleRooks \ ((Rank(RANK_1) \cap pos_pieces_cp(pos, WHITE, ROOK))
                            \cup (Rank(RANK_8) \cap pos_pieces_cp(pos, BLACK, ROOK))) = {}
      /\ \A color \in Colors :
           LET b == pos.castleRooks \cap pos.byColor[color]
           IN  IF bb_count(b) = 2
               THEN Segment[bb_lsb(b)][bb_msb(b)] \cap pos_pieces_cp(pos, color, KING) # {}
               ELSE IF bb_count(b) = 1
               THEN pos_pieces_cp(pos, color, KING) \cap (File(FILE_A) \cup File(FILE_H)) = {}
               ELSE b = {}

\* Verify ep square
verify_ep(pos) ==
    pos.epSquare # NB_SQUARE =>
      LET rank == rank_of(pos.epSquare)
          color == IF rank = RANK_3 THEN WHITE ELSE BLACK
      IN  ~ (\/ color = pos.turn
             \/ bb_test(pos_pieces(pos), pos.epSquare)
             \/ (rank # RANK_3 /\ rank # RANK_6)
             \/ ~bb_test(pos_pieces_cp(pos, color, PAWN), pos.epSquare + push_inc(color))
             \/ bb_test(pos_pieces(pos), pos.epSquare - push_inc(color)))

\* The end of pos_set: the four verifications, then finish.
set_verify(pos) ==
    IF ~verify_counts(pos) \/ ~verify_pawns(pos) \/ ~verify_castling(pos) \/ ~verify_ep(pos)
    THEN Fail("false", pos)
    ELSE finish(pos)

\* 50 move counter and full move counter, both optional.
set_counters(pos, tail, token) ==
    LET t5 == str_tok(tail, token)
        rule50 == IF t5.tail.null THEN 0 ELSE U8(atoi(t5.token))
        t6 == str_tok(t5.tail, t5.token)
        fullMove == IF t6.tail.null THEN 1 ELSE U16(atoi(t6.token))
    IN  IF rule50 >= 100 THEN Fail("false", [pos EXCEPT !.rule50 = rule50])
        ELSE set_verify([pos EXCEPT !.rule50 = rule50, !.fullMove = fullMove])

\* En passant square: optional, default '-'
set_ep(pos, tail, token) ==
    LET t4 == str_tok(tail, token)
        tok == IF t4.tail.null THEN <<"-">> ELSE t4.token
        sq == string_to_square(tok)
    IN  IF Len(tok) > 2 THEN Fail("false", pos)
        ELSE IF ~sq.ok THEN Fail("assert", pos)
        ELSE set_counters([pos EXCEPT !.epSquare = sq.sq,
                                      !.key = Xor(@, {ZobristEnPassant(sq.sq)})],
                          t4.tail, tok)

\* Castling rights: optional, default '-'; then the chess960 flag.
set_castling(pos, tail, token, chess960) ==
    LET t3 == str_tok(tail, token)
        ca == IF t3.tail.null THEN [st |-> "ok", pos |-> pos]
              ELSE IF Len(t3.token) > 4 THEN [st |-> "false", pos |-> pos]
              ELSE ParseCastling(t3.token, pos)
    IN  IF ca.st # "ok" THEN Fail(ca.st, ca.pos)
        ELSE set_ep([ca.pos EXCEPT !.key = Xor(@, zobrist_castling(ca.pos.castleRooks)),
                                   !.chess960 = chess960],
                    t3.tail, t3.token)

\* Turn of play
set_turn(pos, tail, token, chess960) ==
    LET t2 == str_tok(tail, token)
    IN  IF Len(t2.token) # 1 THEN Fail("false", pos)
        ELSE IF t2.token[1] = "w"
        THEN set_castling([pos EXCEPT !.turn = WHITE], t2.tail, t2.token, chess960)
        ELSE IF t2.token[1] # "b" THEN Fail("false", pos)
        ELSE set_castling([pos EXCEPT !.turn = BLACK, !.key = Xor(@, {ZobristTurn})],
                          t2.tail, t2.token, chess960)

\* pos_set(pos, fen, chess960): [ret |-> "true" / "false" / "assert" / "assert_finish", pos].
pos_set(fen, chess960) ==
    LET t1 == str_tok(Ptr(fen), <<>>)
        pl == ParsePlacement(t1.token, RANK_8, ZeroPosition)
    IN  IF pl.st # "ok" THEN Fail(pl.st, pl.pos)
        ELSE IF pl.rank # RANK_1 THEN Fail("false", pl.pos)
        ELSE set_turn(pl.pos, t1.tail, t1.token, chess960)

\* ----------------------------------------------------------------- pos_get

\* One rank of the placement field: digits for runs of empty squares, piece letters.
RECURSIVE get_rank(_, _, _, _)
get_rank(pos, rank, file, cnt) ==
    IF file > FILE_H THEN (IF cnt # 0 THEN <<Chr(cnt + Ord("0"))>> ELSE <<>>)
    ELSE LET square == square_from(rank, file)
         IN  IF bb_test(pos_pieces(pos), square)
             THEN (IF cnt # 0 THEN <<Chr(cnt + Ord("0"))>> ELSE <<>>)
                  \o <<PieceLabel[pos_color_on(pos, square)][pos_piece_on(pos, square) + 1]>>
                  \o get_rank(pos, rank, file + 1, 0)
             ELSE get_rank(pos, rank, file + 1, cnt + 1)

RECURSIVE get_placement(_, _)
get_placement(pos, rank) ==
    get_rank(pos, rank, FILE_A, 0)
    \o (IF rank = RANK_1 THEN <<" ">> ELSE <<"/">> \o get_placement(pos, rank - 1))

\* get_castling_color writing the queen-side letter first.
get_castling_color_queen_first(pos, color) ==
    LET b == pos.castleRooks \cap pos.byColor[color]
        king == pos_king_square(pos, color)
    IN  IF b = {} THEN <<>>
        ELSE (IF b \cap Ray[king][king + LEFT] # {} THEN <<PieceLabel[color][QUEEN + 1]>>
              ELSE <<>>)
             \o (IF b \cap Ray[king][king + RIGHT] # {} THEN <<PieceLabel[color][KING + 1]>>
                 ELSE <<>>)

\* The castling letters of one colour.
get_castling_color(pos, color) ==
    LET b == pos.castleRooks \cap pos.byColor[color]
        king == pos_king_square(pos, color)
    IN  IF b = {} THEN <<>>
        ELSE (IF b \cap Ray[king][king + RIGHT] # {} THEN <<PieceLabel[color][KING + 1]>>
              ELSE <<>>)
             \o (IF b \cap Ray[king][king + LEFT] # {} THEN <<PieceLabel[color][QUEEN + 1]>>
                 ELSE <<>>)

get_castling(pos) ==
    IF pos.castleRooks = {} THEN <<"-">>
    ELSE get_castling_color(pos, WHITE) \o get_castling_color(pos, BLACK)

\* pos_get(pos): the FEN text of the position.
pos_get(pos) ==
    get_placement(pos, RANK_8)
    \o (IF pos.turn = WHITE THEN <<"w", " ">> ELSE <<"b", " ">>)
    \o get_castling(pos)
    \o <<" ">> \o square_to_string(pos.epSquare)
    \o <<" ">> \o IntToStr(pos.rule50)
    \o <<" ">> \o IntToStr(pos.fullMove)


\* ------------------------------------------------- the caller's moves

\* The squares from a to b on one rank, both included.
RankSpan(a, b) == {s \in Squares : rank_of(s) = rank_of(a)
                      /\ file_of(s) >= Min({file_of(a), file_of(b)})
                      /\ file_of(s) <= Max({file_of(a), file_of(b)})}

\* A KxR castling move king 'from' -> rook 'to': the rook carries a right, stands on the
\* king's rank, and the king's and rook's ways to their final files are free.
CastlingOk(pos, us, from, to) ==
    /\ to \in pos.castleRooks \cap pos_pieces_cp(pos, us, ROOK)
    /\ rank_of(to) = rank_of(from)
    /\ (RankSpan(from, square_from(rank_of(from), IF to > from THEN FILE_G ELSE FILE_C))
        \cup RankSpan(to, square_from(rank_of(from), IF to > from THEN FILE_F ELSE FILE_D)))
       \cap (pos_pieces(pos) \ {from, to}) = {}

\* Where a pawn on 'from' may go: pushes onto empty squares, captures onto enemy
\* pieces or the en-passant square.
PawnTargets(pos, us, from) ==
    LET push == push_inc(us)
        occ == pos_pieces(pos)
        home == IF us = WHITE THEN 1 ELSE 6
        one == IF (from + push) \in Squares /\ (from + push) \notin occ
               THEN {from + push} ELSE {}
        two == IF one # {} /\ rank_of(from) = home /\ (from + 2 * push) \notin occ
               THEN {from + 2 * push} ELSE {}
        caps == PawnAttacks[us][from] \cap (pos.byColor[opposite(us)] \cup {pos.epSquare})
    IN  one \cup two \cup caps

\* Where the piece on 'from' may go by the rules of its movement (castling apart).
Targets(pos, us, from) ==
    LET piece == pos_piece_on(pos, from)
        occ == pos_pieces(pos)
    IN  IF piece = PAWN THEN PawnTargets(pos, us, from)
        ELSE (CASE piece = KNIGHT -> KnightAttacks[from]
                [] piece = BISHOP -> bb_bishop_attacks(from, occ)
                [] piece = ROOK -> bb_rook_attacks(from, occ)
                [] piece = QUEEN -> bb_bishop_attacks(from, occ) \cup bb_rook_attacks(from, occ)
                [] piece = KING -> KingAttacks[from]) \ pos.byColor[us]

\* The promotion pieces a move from 'from' to 'to' may carry.
Proms(pos, from, to) ==
    IF pos_piece_on(pos, from) = PAWN /\ (rank_of(to) = RANK_8 \/ rank_of(to) = RANK_1)
    THEN KNIGHT .. QUEEN ELSE {NB_PIECE}

\* The pseudo-legal moves of the position: every move of a piece of the side to move
\* by its movement rule, the own king possibly left in check; the enemy king is never
\* captured (pos_move asserts it), castling is KxR.
PseudoLegal(pos) ==
    LET us == pos.turn
        theirKing == pos_pieces_cp(pos, opposite(us), KING)
    IN  UNION {
          UNION {{move_build(from, to, prom) : prom \in Proms(pos, from, to)} :
                    to \in Targets(pos, us, from) \ theirKing}
          \cup (IF pos_piece_on(pos, from) = KING
                THEN {move_build(from, to, NB_PIECE) :
                        to \in {r \in pos.castleRooks : CastlingOk(pos, us, from, r)}}
                ELSE {})
          : from \in pos.byColor[us]}


\* --------------------------------------------------------- pos_move_to_san

\* SAN disambiguation, step 1: our other pieces of the same type that can reach 'to'.
san_contesters(pos, piece, from, to) ==
    LET us == pos.turn
        others == pos_pieces_cp(pos, us, piece) \ {from}
        occ == pos_pieces(pos)
        reach == IF piece = BISHOP THEN others \cap bb_bishop_attacks(to, occ)
                 ELSE IF piece = ROOK THEN others \cap bb_rook_attacks(to, occ)
                 ELSE others \cap (bb_bishop_attacks(to, occ) \cup bb_rook_attacks(to, occ))
    IN  IF piece = KNIGHT THEN (others \cap KnightAttacks[to]) \ pos.pins
        ELSE {c \in reach : c \in pos.pins => bb_test(Ray[pos_king_square(pos, us)][c], to)}

\* san_disambiguation that always writes the origin file.
san_disambiguation_file(from, contesters) ==
    IF contesters = {} THEN <<>> ELSE <<Chr(file_of(from) + Ord("a"))>>

\* SAN disambiguation, step 2: the origin file and/or rank to write.
san_disambiguation(from, contesters) ==
    IF contesters = {} THEN <<>>
    ELSE IF bb_rook_attacks(from, {}) \cap contesters # {}
    THEN (IF Rank(rank_of(from)) \cap contesters # {}
          THEN <<Chr(file_of(from) + Ord("a"))>> ELSE <<>>)
         \o (IF File(file_of(from)) \cap contesters # {}
             THEN <<Chr(rank_of(from) + Ord("1"))>> ELSE <<>>)
    ELSE <<Chr(file_of(from) + Ord("a"))>>

san_pawn(pos, m) ==
    <<Chr(file_of(m.from) + Ord("a"))>>
    \o (IF pos_move_is_capture(pos, m) \/ m.to = pos.epSquare
        THEN <<"x", Chr(file_of(m.to) + Ord("a"))>> ELSE <<>>)
    \o <<Chr(rank_of(m.to) + Ord("1"))>>
    \o (IF m.prom < NB_PIECE THEN <<"=", PieceLabel[WHITE][m.prom + 1]>> ELSE <<>>)

san_king(pos, m) ==
    IF pos_move_is_castling(pos, m)
    THEN (IF m.to > m.from THEN <<"O", "-", "O">> ELSE <<"O", "-", "O", "-", "O">>)
    ELSE <<"K">> \o (IF pos_move_is_capture(pos, m) THEN <<"x">> ELSE <<>>)
         \o square_to_string(m.to)

san_piece(pos, piece, m) ==
    <<PieceLabel[WHITE][piece + 1]>>
    \o san_disambiguation(m.from, san_contesters(pos, piece, m.from, m.to))
    \o (IF pos_move_is_capture(pos, m) THEN <<"x">> ELSE <<>>)
    \o square_to_string(m.to)

\* pos_move_to_san(pos, m, out): the text appended to out.
pos_move_to_san(pos, m) ==
    LET piece == pos_piece_on(pos, m.from)
    IN  IF piece = PAWN THEN san_pawn(pos, m)
        ELSE IF piece = KING THEN san_king(pos, m)
        ELSE san_piece(pos, piece, m)

\* ------------------------------------------- pos_move_to_lan, pos_lan_to_move

\* pos_move_to_lan(pos, m, out): the text appended to out.
pos_move_to_lan(pos, m) ==
    IF m.from = 0 /\ m.to = 0 /\ m.prom = 0 THEN <<"0", "0", "0", "0">>
    ELSE LET to == IF ~pos.chess960 /\ pos_move_is_castling(pos, m)
                   THEN (IF m.to > m.from THEN m.from + 2 ELSE m.from - 2)
                   ELSE m.to
         IN  square_to_string(m.from) \o square_to_string(to)
             \o (IF m.prom < NB_PIECE THEN <<PieceLabel[BLACK][m.prom + 1]>> ELSE <<>>)

\* pos_lan_to_move(pos, lan): [ok |-> the BOUNDS of square_from hold, m |-> the move]
pos_lan_to_move(pos, lan) ==
    LET prom == IF CharAt(lan, 4) # "" THEN IndexOf(PieceLabel[BLACK], CharAt(lan, 4))
                ELSE NB_PIECE
        fromRank == Ord(CharAt(lan, 1)) - Ord("1")
        fromFile == Ord(CharAt(lan, 0)) - Ord("a")
        toRank == Ord(CharAt(lan, 3)) - Ord("1")
        toFile == Ord(CharAt(lan, 2)) - Ord("a")
        from == square_from(fromRank, fromFile)
        to == square_from(toRank, toFile)
        ok == square_ok(fromRank, fromFile) /\ square_ok(toRank, toFile)
        kingShift == ok /\ ~pos.chess960 /\ pos_piece_on(pos, from) = KING
    IN  [ok |-> ok,
         m |-> move_build(from,
                          IF kingShift /\ to = from + 2 THEN to + 1
                          ELSE IF kingShift /\ to = from - 2 THEN to - 2
                          ELSE to,
                          prom)]

\* ------------------------------------------------------------ the program

VARIABLES
    pos,    \* the Position object
    fen,    \* the text given to the last pos_set
    ret,    \* "none" at start, else how the last pos_set / pos_move ended:
            \* "true", "false", "assert" or "assert_finish"
    out,    \* the text written by the last pos_get or pos_move_to_san, <<>> if none
    mv,     \* the move given to the last pos_move_to_san
    ply     \* the number of pos_move calls since pos_set

vars == <<pos, fen, ret, out, mv, ply>>

\* The longest sequence of moves applied to a decoded position.
MaxPly ==
    2

\* The same, before a move is written in SAN.
MaxSanPly ==
    1

\* The format records handed to pos_set, each with the chess960 flag of the call.
Records == {
  \* "4k3/8/8/8/8/8/8/4K2R w K - 0 1": king-side castling, rook and king moves
  [fen |-> <<"4","k","3","/","8","/","8","/","8","/","8","/","8","/","8","/","4","K","2","R"," ","w"," ","K"," ","-"," ","0"," ","1">>,
   chess960 |-> FALSE],
  \* "r3k3/8/8/8/8/8/8/R3K3 b Qq - 3 7": queen-side castling of both sides, rook takes rook
  [fen |-> <<"r","3","k","3","/","8","/","8","/","8","/","8","/","8","/","8","/","R","3","K","3"," ","b"," ","Q","q"," ","-"," ","3"," ","7">>,
   chess960 |-> FALSE],
  \* "4k2r/8/8/8/8/8/8/4K2R w Kk - 0 1": a rook capture revokes both rights
  [fen |-> <<"4","k","2","r","/","8","/","8","/","8","/","8","/","8","/","8","/","4","K","2","R"," ","w"," ","K","k"," ","-"," ","0"," ","1">>,
   chess960 |-> FALSE],
  \* "4k3/8/8/8/3p4/8/P3P3/4K3 w - - 0 1": double pushes with and without a capturing pawn, then en passant
  [fen |-> <<"4","k","3","/","8","/","8","/","8","/","3","p","4","/","8","/","P","3","P","3","/","4","K","3"," ","w"," ","-"," ","-"," ","0"," ","1">>,
   chess960 |-> FALSE],
  \* "4k3/8/8/8/3pP3/8/8/4K3 b - e3 0 12": en-passant square with a capturing pawn
  [fen |-> <<"4","k","3","/","8","/","8","/","8","/","3","p","P","3","/","8","/","8","/","4","K","3"," ","b"," ","-"," ","e","3"," ","0"," ","1","2">>,
   chess960 |-> FALSE],
  \* "4k3/8/8/8/4P3/8/8/4K3 b - e3 0 1": en-passant square no pawn can capture onto
  [fen |-> <<"4","k","3","/","8","/","8","/","8","/","4","P","3","/","8","/","8","/","4","K","3"," ","b"," ","-"," ","e","3"," ","0"," ","1">>,
   chess960 |-> FALSE],
  \* "4k3/4p3/8/3P4/8/8/8/4K3 b - - 5 20": black double push beside a white pawn
  [fen |-> <<"4","k","3","/","4","p","3","/","8","/","3","P","4","/","8","/","8","/","8","/","4","K","3"," ","b"," ","-"," ","-"," ","5"," ","2","0">>,
   chess960 |-> FALSE],
  \* "1r2k3/P7/8/8/8/8/8/4K3 w - - 0 1": promotion, with and without capture
  [fen |-> <<"1","r","2","k","3","/","P","7","/","8","/","8","/","8","/","8","/","8","/","4","K","3"," ","w"," ","-"," ","-"," ","0"," ","1">>,
   chess960 |-> FALSE],
  \* "4k3/8/8/8/8/8/p7/1N2K3 b - - 0 1": black promotion
  [fen |-> <<"4","k","3","/","8","/","8","/","8","/","8","/","8","/","p","7","/","1","N","2","K","3"," ","b"," ","-"," ","-"," ","0"," ","1">>,
   chess960 |-> FALSE],
  \* "4k3/8/8/8/1b6/4r3/3PN3/4K3 w - - 0 1": a pin on a file and a pin on a diagonal
  [fen |-> <<"4","k","3","/","8","/","8","/","8","/","1","b","6","/","4","r","3","/","3","P","N","3","/","4","K","3"," ","w"," ","-"," ","-"," ","0"," ","1">>,
   chess960 |-> FALSE],
  \* "4k3/8/8/8/8/4r3/4n3/4K3 w - - 0 1": an enemy piece between king and rook
  [fen |-> <<"4","k","3","/","8","/","8","/","8","/","8","/","4","r","3","/","4","n","3","/","4","K","3"," ","w"," ","-"," ","-"," ","0"," ","1">>,
   chess960 |-> FALSE],
  \* "q3k3/8/8/8/4r3/4P3/4N3/2B1K3 w - - 0 1": two pieces between king and rook
  [fen |-> <<"q","3","k","3","/","8","/","8","/","8","/","4","r","3","/","4","P","3","/","4","N","3","/","2","B","1","K","3"," ","w"," ","-"," ","-"," ","0"," ","1">>,
   chess960 |-> FALSE],
  \* "4k3/8/8/8/8/3n4/8/r3K3 w - - 0 1": double check
  [fen |-> <<"4","k","3","/","8","/","8","/","8","/","8","/","3","n","4","/","8","/","r","3","K","3"," ","w"," ","-"," ","-"," ","0"," ","1">>,
   chess960 |-> FALSE],
  \* "4k3/8/8/8/8/3n4/8/r3K2r w - - 0 1": three checkers
  [fen |-> <<"4","k","3","/","8","/","8","/","8","/","8","/","3","n","4","/","8","/","r","3","K","2","r"," ","w"," ","-"," ","-"," ","0"," ","1">>,
   chess960 |-> FALSE],
  \* "8/8/8/8/8/8/8/kK6 w - - 0 1": adjacent kings
  [fen |-> <<"8","/","8","/","8","/","8","/","8","/","8","/","8","/","k","K","6"," ","w"," ","-"," ","-"," ","0"," ","1">>,
   chess960 |-> FALSE],
  \* "4k3/8/8/8/4K3/8/8/R7 w Q - 0 1": castling letter, king off its back rank
  [fen |-> <<"4","k","3","/","8","/","8","/","8","/","4","K","3","/","8","/","8","/","R","7"," ","w"," ","Q"," ","-"," ","0"," ","1">>,
   chess960 |-> FALSE],
  \* "4k3/8/8/8/8/8/8/4K1N1 w - - 99 60": half-move clock one below 100
  [fen |-> <<"4","k","3","/","8","/","8","/","8","/","8","/","8","/","8","/","4","K","1","N","1"," ","w"," ","-"," ","-"," ","9","9"," ","6","0">>,
   chess960 |-> FALSE],
  \* "4k3/8/8/8/8/8/8/4K3 w - - 256 1": half-move clock 256
  [fen |-> <<"4","k","3","/","8","/","8","/","8","/","8","/","8","/","8","/","4","K","3"," ","w"," ","-"," ","-"," ","2","5","6"," ","1">>,
   chess960 |-> FALSE],
  \* "4k3/8/8/8/8/8/8/4K3 w - - 100 1": half-move clock 100
  [fen |-> <<"4","k","3","/","8","/","8","/","8","/","8","/","8","/","8","/","4","K","3"," ","w"," ","-"," ","-"," ","1","0","0"," ","1">>,
   chess960 |-> FALSE],
  \* "4k3/8/8/8/8/8/8/4K3 b - - 7 65535": full-move counter at the top of 16 bits
  [fen |-> <<"4","k","3","/","8","/","8","/","8","/","8","/","8","/","8","/","4","K","3"," ","b"," ","-"," ","-"," ","7"," ","6","5","5","3","5">>,
   chess960 |-> FALSE],
  \* "1rk5/8/8/8/8/8/8/1RK5 w Qq - 0 1" (chess960): Chess960 layout, king already on its castling file
  [fen |-> <<"1","r","k","5","/","8","/","8","/","8","/","8","/","8","/","8","/","1","R","K","5"," ","w"," ","Q","q"," ","-"," ","0"," ","1">>,
   chess960 |-> TRUE],
  \* "5krr/8/8/8/8/8/8/5KR1 b Kk - 0 1" (chess960): Chess960 layout, rook beside the king, a second rook outside
  [fen |-> <<"5","k","r","r","/","8","/","8","/","8","/","8","/","8","/","8","/","5","K","R","1"," ","b"," ","K","k"," ","-"," ","0"," ","1">>,
   chess960 |-> TRUE],
  \* "4k3/8/8/8/8/8/8/RR2K3 w B - 0 1" (chess960): file letter naming the inner of two rooks
  [fen |-> <<"4","k","3","/","8","/","8","/","8","/","8","/","8","/","8","/","R","R","2","K","3"," ","w"," ","B"," ","-"," ","0"," ","1">>,
   chess960 |-> TRUE],
  \* "r3k3/8/8/8/8/8/8/rR2K3 w B - 0 1" (chess960): file letter, an enemy rook on the back rank outside
  [fen |-> <<"r","3","k","3","/","8","/","8","/","8","/","8","/","8","/","8","/","r","R","2","K","3"," ","w"," ","B"," ","-"," ","0"," ","1">>,
   chess960 |-> TRUE],
  \* "4k2r/8/8/8/8/8/8/4K2R w Hh - 0 1" (chess960): file letters for the standard rooks
  [fen |-> <<"4","k","2","r","/","8","/","8","/","8","/","8","/","8","/","8","/","4","K","2","R"," ","w"," ","H","h"," ","-"," ","0"," ","1">>,
   chess960 |-> TRUE],
  \* "4k2r/8/8/8/8/8/8/4K2R w kK - 0 1": castling letters, Black first
  [fen |-> <<"4","k","2","r","/","8","/","8","/","8","/","8","/","8","/","8","/","4","K","2","R"," ","w"," ","k","K"," ","-"," ","0"," ","1">>,
   chess960 |-> FALSE],
  \* "4k3/8/8/8/8/8/8/R3K3 w K - 0 1": K with the only rook on the queen side
  [fen |-> <<"4","k","3","/","8","/","8","/","8","/","8","/","8","/","8","/","R","3","K","3"," ","w"," ","K"," ","-"," ","0"," ","1">>,
   chess960 |-> FALSE],
  \* "4k3/8/8/8/8/8/8/4K3 w": optional fields left out
  [fen |-> <<"4","k","3","/","8","/","8","/","8","/","8","/","8","/","8","/","4","K","3"," ","w">>,
   chess960 |-> FALSE],
  \* "4k3/8/8/8/8/8/8/4K3 w - - 00 01": leading zeros
  [fen |-> <<"4","k","3","/","8","/","8","/","8","/","8","/","8","/","8","/","4","K","3"," ","w"," ","-"," ","-"," ","0","0"," ","0","1">>,
   chess960 |-> FALSE],
  \* "4k3/8/8/8/8/8/8/4K12 w - - 0 1": two digits in a row
  [fen |-> <<"4","k","3","/","8","/","8","/","8","/","8","/","8","/","8","/","4","K","1","2"," ","w"," ","-"," ","-"," ","0"," ","1">>,
   chess960 |-> FALSE],
  \* "4k3/8/8/8/8/8/8/4K3  b - - 0 1": two spaces
  [fen |-> <<"4","k","3","/","8","/","8","/","8","/","8","/","8","/","8","/","4","K","3"," "," ","b"," ","-"," ","-"," ","0"," ","1">>,
   chess960 |-> FALSE],
  \* "4k3/8/8/8/8/8/8/4K3 x - - 0 1": bad turn letter
  [fen |-> <<"4","k","3","/","8","/","8","/","8","/","8","/","8","/","8","/","4","K","3"," ","x"," ","-"," ","-"," ","0"," ","1">>,
   chess960 |-> FALSE],
  \* "4k3/8/8/8/8/8/8/4K2P w - - 0 1": pawn on the first rank
  [fen |-> <<"4","k","3","/","8","/","8","/","8","/","8","/","8","/","8","/","4","K","2","P"," ","w"," ","-"," ","-"," ","0"," ","1">>,
   chess960 |-> FALSE],
  \* "4k3/8/8/8/8/8/8/4K2R w Q-": bad castling field
  [fen |-> <<"4","k","3","/","8","/","8","/","8","/","8","/","8","/","8","/","4","K","2","R"," ","w"," ","Q","-">>,
   chess960 |-> FALSE],
  \* "4k3/8/8/8/8/4P3/8/4K3 b - e3 0 1": en-passant square occupied
  [fen |-> <<"4","k","3","/","8","/","8","/","8","/","8","/","4","P","3","/","8","/","4","K","3"," ","b"," ","-"," ","e","3"," ","0"," ","1">>,
   chess960 |-> FALSE],
  \* "rnbqkbnr/pppppppp/8/8/8/8/PPPPPPPP/RNBQKBNR w KQkq - 0 1": the starting position
  [fen |-> <<"r","n","b","q","k","b","n","r","/","p","p","p","p","p","p","p","p","/","8","/","8","/","8","/","8","/","P","P","P","P","P","P","P","P","/","R","N","B","Q","K","B","N","R"," ","w"," ","K","Q","k","q"," ","-"," ","0"," ","1">>,
   chess960 |-> FALSE],
  \* "4k3/8/8/8/8/8/8/4K w - - 0 1": a rank that stops short of file h
  [fen |-> <<"4","k","3","/","8","/","8","/","8","/","8","/","8","/","8","/","4","K"," ","w"," ","-"," ","-"," ","0"," ","1">>,
   chess960 |-> FALSE],
  \* "4k3/8/8/8/8/8/8/4K2R w KK - 0 1": a castling letter twice
  [fen |-> <<"4","k","3","/","8","/","8","/","8","/","8","/","8","/","8","/","4","K","2","R"," ","w"," ","K","K"," ","-"," ","0"," ","1">>,
   chess960 |-> FALSE],
  \* "4k3/8/8/8/8/8/8/4K3 w - -- 0 1": en-passant field of two dashes
  [fen |-> <<"4","k","3","/","8","/","8","/","8","/","8","/","8","/","8","/","4","K","3"," ","w"," ","-"," ","-","-"," ","0"," ","1">>,
   chess960 |-> FALSE],
  \* "4k3/8/8/8/8/8/8/4K3 w - - +5 65536": a signed clock, a full-move number of 17 bits
  [fen |-> <<"4","k","3","/","8","/","8","/","8","/","8","/","8","/","8","/","4","K","3"," ","w"," ","-"," ","-"," ","+","5"," ","6","5","5","3","6">>,
   chess960 |-> FALSE],
  \* "4k3/8/8/8/8/8/8/4K3 w - - -200 1": a negative half-move clock
  [fen |-> <<"4","k","3","/","8","/","8","/","8","/","8","/","8","/","8","/","4","K","3"," ","w"," ","-"," ","-"," ","-","2","0","0"," ","1">>,
   chess960 |-> FALSE],
  \* "4k4/8/8/8/8/8/8/4K3 w - - 0 1": a digit run past file h
  [fen |-> <<"4","k","4","/","8","/","8","/","8","/","8","/","8","/","8","/","4","K","3"," ","w"," ","-"," ","-"," ","0"," ","1">>,
   chess960 |-> FALSE],
  \* "4k3/8/8/8/8/8/8/4K3P w - - 0 1": a piece letter past file h
  [fen |-> <<"4","k","3","/","8","/","8","/","8","/","8","/","8","/","8","/","4","K","3","P"," ","w"," ","-"," ","-"," ","0"," ","1">>,
   chess960 |-> FALSE],
  \* "4k3/8/8/8/8/8/8/4K3/8 w - - 0 1": nine ranks, the ninth empty
  [fen |-> <<"4","k","3","/","8","/","8","/","8","/","8","/","8","/","8","/","4","K","3","/","8"," ","w"," ","-"," ","-"," ","0"," ","1">>,
   chess960 |-> FALSE],
  \* "4k3/8/8/8/8/8/8/4K3/P7 w - - 0 1": nine ranks, a piece on the ninth
  [fen |-> <<"4","k","3","/","8","/","8","/","8","/","8","/","8","/","8","/","4","K","3","/","P","7"," ","w"," ","-"," ","-"," ","0"," ","1">>,
   chess960 |-> FALSE],
  \* "4k3/8/8/8/8/8/4K3 w - - 0 1": seven ranks
  [fen |-> <<"4","k","3","/","8","/","8","/","8","/","8","/","8","/","4","K","3"," ","w"," ","-"," ","-"," ","0"," ","1">>,
   chess960 |-> FALSE],
  \* "4k3/8/8/8/8/8/8/4K2X w - - 0 1": an unrecognized piece letter
  [fen |-> <<"4","k","3","/","8","/","8","/","8","/","8","/","8","/","8","/","4","K","2","X"," ","w"," ","-"," ","-"," ","0"," ","1">>,
   chess960 |-> FALSE],
  \* "4k3/8/8/8/8/8/8/4K3 w K - 0 1": castling letter, no rook on the back rank
  [fen |-> <<"4","k","3","/","8","/","8","/","8","/","8","/","8","/","8","/","4","K","3"," ","w"," ","K"," ","-"," ","0"," ","1">>,
   chess960 |-> FALSE],
  \* "4k3/8/8/8/4P3/8/8/4K3 b - e9 0 1": en-passant field with a rank past 8
  [fen |-> <<"4","k","3","/","8","/","8","/","8","/","4","P","3","/","8","/","8","/","4","K","3"," ","b"," ","-"," ","e","9"," ","0"," ","1">>,
   chess960 |-> FALSE],
  \* "4k3/8/8/8/4P3/8/8/4K3 b - e 0 1": en-passant field of one letter
  [fen |-> <<"4","k","3","/","8","/","8","/","8","/","4","P","3","/","8","/","8","/","4","K","3"," ","b"," ","-"," ","e"," ","0"," ","1">>,
   chess960 |-> FALSE],
  \* "r3k2r/8/8/8/8/8/8/R3K2R w KQkq - 0 1": castling on either side, for both colours
  [fen |-> <<"r","3","k","2","r","/","8","/","8","/","8","/","8","/","8","/","8","/","R","3","K","2","R"," ","w"," ","K","Q","k","q"," ","-"," ","0"," ","1">>,
   chess960 |-> FALSE]
}


\* The positions whose moves are written in SAN.
SanRecords == {
  \* "4k3/8/8/8/8/8/8/1N2KN2 w - - 0 1": knights on one rank: both reach d2
  [fen |-> <<"4","k","3","/","8","/","8","/","8","/","8","/","8","/","8","/","1","N","2","K","N","2"," ","w"," ","-"," ","-"," ","0"," ","1">>,
   chess960 |-> FALSE],
  \* "4k3/8/8/1N6/8/8/8/1N2K3 w - - 0 1": knights on one file: both reach a3 and c3
  [fen |-> <<"4","k","3","/","8","/","8","/","1","N","6","/","8","/","8","/","8","/","1","N","2","K","3"," ","w"," ","-"," ","-"," ","0"," ","1">>,
   chess960 |-> FALSE],
  \* "4k3/8/8/8/4N3/8/8/1N2K3 w - - 0 1": knights on different files and ranks: both reach c3 and d2
  [fen |-> <<"4","k","3","/","8","/","8","/","8","/","4","N","3","/","8","/","8","/","1","N","2","K","3"," ","w"," ","-"," ","-"," ","0"," ","1">>,
   chess960 |-> FALSE],
  \* "4k3/8/8/8/8/4r3/4N3/1N2K3 w - - 0 1": one of the knights pinned
  [fen |-> <<"4","k","3","/","8","/","8","/","8","/","8","/","4","r","3","/","4","N","3","/","1","N","2","K","3"," ","w"," ","-"," ","-"," ","0"," ","1">>,
   chess960 |-> FALSE],
  \* "1n2k3/8/2P5/8/1n6/8/8/4K3 b - - 0 1": black knights on one file: both reach a6 and capture on c6
  [fen |-> <<"1","n","2","k","3","/","8","/","2","P","5","/","8","/","1","n","6","/","8","/","8","/","4","K","3"," ","b"," ","-"," ","-"," ","0"," ","1">>,
   chess960 |-> FALSE],
  \* "4k3/8/8/1N6/8/8/8/1N2KN2 w - - 0 1": three knights
  [fen |-> <<"4","k","3","/","8","/","8","/","1","N","6","/","8","/","8","/","8","/","1","N","2","K","N","2"," ","w"," ","-"," ","-"," ","0"," ","1">>,
   chess960 |-> FALSE]
}


\* The positions whose moves are written in LAN and read back.
LanRecords == {
  \* "r3k2r/8/8/8/8/8/8/R3K2R w KQkq - 0 1": standard castling on both sides, White to move
  [fen |-> <<"r","3","k","2","r","/","8","/","8","/","8","/","8","/","8","/","8","/","R","3","K","2","R"," ","w"," ","K","Q","k","q"," ","-"," ","0"," ","1">>,
   chess960 |-> FALSE],
  \* "r3k2r/8/8/8/8/8/8/R3K2R b KQkq - 0 1": standard castling on both sides, Black to move
  [fen |-> <<"r","3","k","2","r","/","8","/","8","/","8","/","8","/","8","/","8","/","R","3","K","2","R"," ","b"," ","K","Q","k","q"," ","-"," ","0"," ","1">>,
   chess960 |-> FALSE],
  \* "r3k2r/8/8/8/8/8/8/R3K2R w KQkq - 0 1" (chess960): the standard layout in Chess960 mode
  [fen |-> <<"r","3","k","2","r","/","8","/","8","/","8","/","8","/","8","/","8","/","R","3","K","2","R"," ","w"," ","K","Q","k","q"," ","-"," ","0"," ","1">>,
   chess960 |-> TRUE],
  \* "1rk5/8/8/8/8/8/8/1RK5 w Qq - 0 1" (chess960): Chess960 layout, king on c1, rook on b1
  [fen |-> <<"1","r","k","5","/","8","/","8","/","8","/","8","/","8","/","8","/","1","R","K","5"," ","w"," ","Q","q"," ","-"," ","0"," ","1">>,
   chess960 |-> TRUE],
  \* "5krr/8/8/8/8/8/8/5KR1 b Kk - 0 1" (chess960): Chess960 layout, rook beside the king
  [fen |-> <<"5","k","r","r","/","8","/","8","/","8","/","8","/","8","/","8","/","5","K","R","1"," ","b"," ","K","k"," ","-"," ","0"," ","1">>,
   chess960 |-> TRUE],
  \* "4k3/8/8/8/8/8/8/4K1R1 w K - 0 1": castling rook on g1, not in Chess960 mode
  [fen |-> <<"4","k","3","/","8","/","8","/","8","/","8","/","8","/","8","/","4","K","1","R","1"," ","w"," ","K"," ","-"," ","0"," ","1">>,
   chess960 |-> FALSE],
  \* "4k3/8/8/8/8/8/8/1RK5 w Q - 0 1": king on c1 and castling rook on b1, not in Chess960 mode
  [fen |-> <<"4","k","3","/","8","/","8","/","8","/","8","/","8","/","8","/","1","R","K","5"," ","w"," ","Q"," ","-"," ","0"," ","1">>,
   chess960 |-> FALSE],
  \* "1r2k3/P7/8/8/8/8/8/4K3 w - - 0 1": promotion, with and without capture
  [fen |-> <<"1","r","2","k","3","/","P","7","/","8","/","8","/","8","/","8","/","8","/","4","K","3"," ","w"," ","-"," ","-"," ","0"," ","1">>,
   chess960 |-> FALSE],
  \* "4k3/8/8/8/8/8/p7/1N2K3 b - - 0 1": black promotion
  [fen |-> <<"4","k","3","/","8","/","8","/","8","/","8","/","8","/","p","7","/","1","N","2","K","3"," ","b"," ","-"," ","-"," ","0"," ","1">>,
   chess960 |-> FALSE],
  \* "4k3/8/8/8/3pP3/8/8/4K3 b - e3 0 12": en-passant capture
  [fen |-> <<"4","k","3","/","8","/","8","/","8","/","3","p","P","3","/","8","/","8","/","4","K","3"," ","b"," ","-"," ","e","3"," ","0"," ","1","2">>,
   chess960 |-> FALSE],
  \* "4k3/8/8/8/8/8/8/N3K3 w - - 0 1": a knight on a1
  [fen |-> <<"4","k","3","/","8","/","8","/","8","/","8","/","8","/","8","/","N","3","K","3"," ","w"," ","-"," ","-"," ","0"," ","1">>,
   chess960 |-> FALSE]
}


Init ==
    /\ pos = ZeroPosition
    /\ fen = <<>>
    /\ ret = "none"
    /\ out = <<>>
    /\ mv = NoMove
    /\ ply = 0

\* pos_set on one of the records.  It re-initialises the whole object, so its result
\* does not depend on the state it is called in: one call, made first, reaches every
\* state a later call would.
SetFrom(records) ==
    /\ ret = "none"
    /\ \E r \in records :
         LET res == pos_set(r.fen, r.chess960)
         IN  /\ pos' = res.pos
             /\ ret' = res.ret
             /\ fen' = r.fen
    /\ UNCHANGED <<out, mv, ply>>

\* pos_move with a pseudo-legal move of the current position, at most n in a row.
MoveUpTo(n) ==
    /\ ret = "true"
    /\ out = <<>>
    /\ ply < n
    /\ \E m \in PseudoLegal(pos) :
         LET res == pos_move(pos, m)
         IN  /\ pos' = res.pos
             /\ ret' = res.ret
    /\ ply' = ply + 1
    /\ UNCHANGED <<fen, out, mv>>

PosSet == SetFrom(Records)

PosMove == MoveUpTo(MaxPly)

\* pos_get on the current position.
PosGet ==
    /\ ret = "true"
    /\ out = <<>>
    /\ out' = pos_get(pos)
    /\ UNCHANGED <<pos, fen, ret, mv, ply>>

Next == PosSet \/ PosMove \/ PosGet

Spec == Init /\ [][Next]_vars

\* The SAN writer on the positions of SanRecords and those one move away.
SanSet == SetFrom(SanRecords)

SanMove == MoveUpTo(MaxSanPly)

\* pos_move_to_san on a pseudo-legal move of the current position (out starts empty).
MoveToSan ==
    /\ ret = "true"
    /\ out = <<>>
    /\ \E m \in PseudoLegal(pos) :
         /\ out' = pos_move_to_san(pos, m)
         /\ mv' = m
    /\ UNCHANGED <<pos, fen, ret, ply>>

NextSan == SanSet \/ SanMove \/ MoveToSan

SpecSan == Init /\ [][NextSan]_vars

\* The LAN writer on the positions of LanRecords.
LanSet == SetFrom(LanRecords)

\* pos_move_to_lan on a pseudo-legal move of the current position (out starts empty).
MoveToLan ==
    /\ ret = "true"
    /\ out = <<>>
    /\ \E m \in PseudoLegal(pos) :
         /\ out' = pos_move_to_lan(pos, m)
         /\ mv' = m
    /\ UNCHANGED <<pos, fen, ret, ply>>

NextLan == LanSet \/ MoveToLan

SpecLan == Init /\ [][NextLan]_vars


\* ================================================================= claims

\* The key recomputed from scratch: placement, turn, castling and en-passant constants.
KeyFromScratch(p) ==
    {ZobristKey(c, pc, s) : <<c, pc, s>> \in
        {t \in Colors \X Pieces \X Squares : t[3] \in p.byColor[t[1]] \cap p.byPiece[t[2]]}}
    \cup (IF p.turn = BLACK THEN {ZobristTurn} ELSE {})
    \cup {ZobristCastling(s) : s \in p.castleRooks}
    \cup {ZobristEnPassant(p.epSquare)}

\* C1: in every position returned by pos_set or pos_move, the incrementally maintained
\* key equals the key recomputed from scratch from placement, turn, castleRooks and
\* epSquare (so positions equal in these four have equal keys).
C1_HashConsistent == ret = "true" => pos.key = KeyFromScratch(pos)

\* C1 witness: 1. e2-e4 (en-passant square set) 1... dxe3 e.p. has been played.
C1_Witness ==
    /\ ret = "true" /\ ply = 2
    /\ pos.lastMove = move_build(27, 20, NB_PIECE)
    /\ 20 \in pos_pieces_cp(pos, BLACK, PAWN)
    /\ 28 \notin pos_pieces(pos)
    /\ pos.key = KeyFromScratch(pos)

\* The squares strictly between a and b on a rank, file or diagonal.
Between(a, b) ==
    {s \in Squares \ {a, b} :
        LET lo(x, y) == IF x < y THEN x ELSE y
            hi(x, y) == IF x < y THEN y ELSE x
            inR == lo(rank_of(a), rank_of(b)) < rank_of(s) /\ rank_of(s) < hi(rank_of(a), rank_of(b))
            inF == lo(file_of(a), file_of(b)) < file_of(s) /\ file_of(s) < hi(file_of(a), file_of(b))
        IN  \/ rank_of(a) = rank_of(b) /\ rank_of(s) = rank_of(a) /\ inF
            \/ file_of(a) = file_of(b) /\ file_of(s) = file_of(a) /\ inR
            \/ OnDiag(a, b) /\ OnDiag(a, s) /\ OnDiag(s, b) /\ inR /\ inF}

\* The pinned squares as the claim describes them.
PinnedSquares(p) ==
    LET us == p.turn
        them == opposite(us)
        king == pos_king_square(p, us)
        lineSliders == {q \in pos_pieces_cpp(p, them, ROOK, QUEEN) :
                          rank_of(q) = rank_of(king) \/ file_of(q) = file_of(king)}
        diagSliders == {q \in pos_pieces_cpp(p, them, BISHOP, QUEEN) : OnDiag(king, q)}
    IN  {s \in p.byColor[us] :
           \E q \in lineSliders \cup diagSliders :
              /\ s \in Between(king, q)
              /\ Between(king, q) \cap pos_pieces(p) = {s}}

\* C5: after finish, pins is exactly the set of side-to-move pieces that are the only
\* occupied square strictly between their king and an enemy rook/queen on a shared
\* rank or file, or an enemy bishop/queen on a shared diagonal.
C5_PinsExact == ret = "true" => pos.pins = PinnedSquares(pos)

\* C5 witness: two moves played, a piece pinned; and a line with two pieces between
\* king and slider that pins nothing.
C5_Witness ==
    /\ ret = "true" /\ ply = 2
    /\ pos.pins # {}
    /\ pos.pins = PinnedSquares(pos)
    /\ \E q \in pos_pieces_cpp(pos, opposite(pos.turn), ROOK, QUEEN) :
          LET king == pos_king_square(pos, pos.turn)
          IN  Cardinality(Between(king, q) \cap pos_pieces(pos)) >= 2

\* C6: the two colour sets are disjoint, the six piece sets are pairwise disjoint and
\* cover exactly the occupied squares, and each colour has exactly one king.
C6_PlacementConsistent ==
    ret = "true" =>
      /\ pos.byColor[WHITE] \cap pos.byColor[BLACK] = {}
      /\ \A p \in Pieces : \A q \in Pieces : p # q => pos.byPiece[p] \cap pos.byPiece[q] = {}
      /\ UNION {pos.byPiece[p] : p \in Pieces} = pos.byColor[WHITE] \cup pos.byColor[BLACK]
      /\ \A c \in Colors : Cardinality(pos.byColor[c] \cap pos.byPiece[KING]) = 1

\* C6 witness: Chess960 queen-side castling c1xb1 played: the king stays on c1, the
\* rook goes from b1 to d1.
C6_Witness ==
    /\ ret = "true" /\ ply = 1 /\ pos.chess960
    /\ pos.lastMove = move_build(2, 1, NB_PIECE)
    /\ pos_pieces_cp(pos, WHITE, KING) = {2}
    /\ pos_pieces_cp(pos, WHITE, ROOK) = {3}
    /\ pos.byColor[WHITE] = {2, 3}


\* A counter written as a plain decimal: digits only, no leading zero.
PlainDecimal(t) ==
    /\ t # <<>>
    /\ \A i \in 1 .. Len(t) : isdigit(t[i])
    /\ Len(t) = 1 \/ t[1] # "0"

\* One rank of a placement field in normal form: it fills the eight files and writes
\* every run of empty squares as one digit.
RECURSIVE RankWidth(_)
RankWidth(r) ==
    IF r = <<>> THEN 0
    ELSE (IF isdigit(Head(r)) THEN Ord(Head(r)) - Ord("0") ELSE 1) + RankWidth(Tail(r))

NormalRank(r) ==
    /\ RankWidth(r) = NB_FILE
    /\ \A i \in 1 .. (Len(r) - 1) : ~(isdigit(r[i]) /\ isdigit(r[i + 1]))

\* A castling letter names a rook that stands on the named side of that colour's king,
\* on the back rank they share.
NamesRookOnItsSide(p, letter) ==
    LET color == IF isupper(letter) THEN WHITE ELSE BLACK
        back == IF color = WHITE THEN RANK_1 ELSE RANK_8
        king == pos_king_square(p, color)
        rooks == Rank(back) \cap p.byPiece[ROOK]
    IN  /\ rank_of(king) = back
        /\ rooks # {}
        /\ IF toupper(letter) = "K" THEN Max(rooks) > king ELSE Min(rooks) < king

\* The castling field in normal form: "-", or letters of KQkq in this order.
NormalCastling(t, p) ==
    \/ t = <<"-">>
    \/ /\ \A i \in 1 .. Len(t) : t[i] \in {"K", "Q", "k", "q"} /\ NamesRookOnItsSide(p, t[i])
       /\ \A i \in 1 .. Len(t) : \A j \in 1 .. Len(t) :
             i < j => IndexOf(<<"K", "Q", "k", "q">>, t[i]) < IndexOf(<<"K", "Q", "k", "q">>, t[j])

\* A format record in the normal form of the encoder: six fields with one space between
\* them (no field is empty), and each field in normal form; p is the position decoded
\* from the record.
NormalRecord(text, p) ==
    LET f == Split(text, " ")
    IN  /\ Len(f) = 6
        /\ \A i \in 1 .. 6 : f[i] # <<>>
        /\ LET ranks == Split(f[1], "/")
           IN  Len(ranks) = NB_RANK /\ \A i \in 1 .. Len(ranks) : NormalRank(ranks[i])
        /\ NormalCastling(f[3], p)
        /\ f[4] = <<"-">> \/ (Len(f[4]) = 2 /\ f[4][1] # "-")
        /\ PlainDecimal(f[5]) /\ DigitsValue(f[5], 0) < 100
        /\ PlainDecimal(f[6]) /\ DigitsValue(f[6], 0) < 65536

\* C2 as stated: for every record pos_set accepts, pos_get of the decoded position is
\* the identical text.
C2_RoundTripAnyAccepted == (ret = "true" /\ ply = 0 /\ out # <<>>) => out = fen

\* C2 as amended: for every record pos_set accepts that is in the encoder's normal
\* form, pos_get of the decoded position is the identical text.
C2_RoundTripNormal ==
    (ret = "true" /\ ply = 0 /\ out # <<>> /\ NormalRecord(fen, pos)) => out = fen

\* C2 witness: a normal-form record with castling letters of both colours, a half-move
\* clock and a full-move number has been decoded and encoded back to itself.
C2_Witness ==
    /\ ret = "true" /\ ply = 0 /\ out # <<>> /\ NormalRecord(fen, pos)
    /\ pos.castleRooks = {0, 56} /\ pos.rule50 = 3 /\ pos.fullMove = 7
    /\ out = fen

\* The raw fields of two positions agree.
SameRawFields(p, q) ==
    /\ p.byColor = q.byColor /\ p.byPiece = q.byPiece /\ p.turn = q.turn
    /\ p.castleRooks = q.castleRooks /\ p.epSquare = q.epSquare
    /\ p.rule50 = q.rule50 /\ p.fullMove = q.fullMove /\ p.key = q.key

\* C3: pos_set applied to pos_get(P), with the same chess960 flag, succeeds and yields
\* the raw fields of P, for every position P reached by pos_set and pos_move.
C3_DecodeEncoded ==
    (ret = "true" /\ out # <<>>) =>
       LET back == pos_set(out, pos.chess960)
       IN  back.ret = "true" /\ SameRawFields(back.pos, pos)

\* C4: the assertions of finish never fail, and in every position returned the king of
\* the side to move is in attacked if and only if checkers is not empty, which never
\* holds more than two squares.
C4_CheckersConsistent ==
    /\ ret # "assert_finish"
    /\ ret = "true" =>
         /\ bb_test(pos.attacked, pos_king_square(pos, pos.turn)) <=> pos.checkers # {}
         /\ Cardinality(pos.checkers) <= 2

\* C7: every square of castleRooks holds a rook of some colour on that colour's back
\* rank, with that colour's king on the same rank and at most one retained rook on each
\* side of the king.
C7_CastleRooksConsistent ==
    ret = "true" =>
      \A s \in pos.castleRooks :
        \E c \in Colors :
          LET back == IF c = WHITE THEN RANK_1 ELSE RANK_8
              king == pos_king_square(pos, c)
              mine == pos.castleRooks \cap pos.byColor[c]
          IN  /\ s \in pos_pieces_cp(pos, c, ROOK)
              /\ rank_of(s) = back
              /\ rank_of(king) = back
              /\ Cardinality({t \in mine : t < king}) <= 1
              /\ Cardinality({t \in mine : t > king}) <= 1

\* C8: epSquare is the 'none' value unless a pawn of the side not to move stands one
\* step beyond it, the square itself and the one behind it are empty, and a pawn of the
\* side to move can capture onto it.
C8_EpSquareCapturable ==
    (ret = "true" /\ pos.epSquare # NB_SQUARE) =>
       LET us == pos.turn
           them == opposite(us)
           ep == pos.epSquare
       IN  /\ (ep + push_inc(them)) \in pos_pieces_cp(pos, them, PAWN)
           /\ ep \notin pos_pieces(pos)
           /\ (ep - push_inc(them)) \notin pos_pieces(pos)
           /\ PawnAttacks[them][ep] \cap pos_pieces_cp(pos, us, PAWN) # {}

\* The value written in the half-move clock field of a record (0 when left out).
ClockField(text) ==
    LET f == SelectSeq(Split(text, " "), LAMBDA t : t # <<>>)
    IN  IF Len(f) >= 5 THEN atoi(f[5]) ELSE 0

\* C9: rule50 stays in [0, 100): pos_set rejects a half-move clock field of 100 or
\* more, and no sequence of moves takes the counter to 100.
C9_Rule50Below100 ==
    ret = "true" =>
      /\ pos.rule50 \in 0 .. 99
      /\ ply = 0 => ClockField(fen) < 100


\* The case of C10: the move is a knight move, exactly one other knight of the side to
\* move can reach the destination too, and neither knight is pinned.
TwoKnightsReach(p, m) ==
    LET others == (pos_pieces_cp(p, p.turn, KNIGHT) \ {m.from}) \cap KnightAttacks[m.to]
    IN  /\ m.from \in pos_pieces_cp(p, p.turn, KNIGHT)
        /\ Cardinality(others) = 1
        /\ (others \cup {m.from}) \cap p.pins = {}

OtherKnight(p, m) ==
    CHOOSE k \in (pos_pieces_cp(p, p.turn, KNIGHT) \ {m.from}) \cap KnightAttacks[m.to] : TRUE

\* "N", the disambiguation, "x" for a capture, the destination square.
KnightSan(p, m, disambiguation) ==
    <<"N">> \o disambiguation
    \o (IF m.to \in p.byColor[opposite(p.turn)] THEN <<"x">> ELSE <<>>)
    \o <<Chr(file_of(m.to) + Ord("a")), Chr(rank_of(m.to) + Ord("1"))>>

\* C10 as stated: origin file alone when the two knights stand on different files, the
\* full origin square when they stand on the same file.
C10_KnightFileOrSquare ==
    (out # <<>> /\ TwoKnightsReach(pos, mv)) =>
       out = KnightSan(pos, mv,
               IF file_of(OtherKnight(pos, mv)) # file_of(mv.from)
               THEN <<Chr(file_of(mv.from) + Ord("a"))>>
               ELSE <<Chr(file_of(mv.from) + Ord("a")), Chr(rank_of(mv.from) + Ord("1"))>>)

\* C10 as amended: origin file alone when the two knights stand on different files,
\* origin rank alone when they stand on the same file.
C10_KnightFileOrRank ==
    (out # <<>> /\ TwoKnightsReach(pos, mv)) =>
       out = KnightSan(pos, mv,
               IF file_of(OtherKnight(pos, mv)) # file_of(mv.from)
               THEN <<Chr(file_of(mv.from) + Ord("a"))>>
               ELSE <<Chr(rank_of(mv.from) + Ord("1"))>>)

\* C10 witness: knights on b1 and b5, the move b1-c3 written "N1c3".
C10_Witness ==
    /\ out = <<"N", "1", "c", "3">>
    /\ mv = move_build(1, 18, NB_PIECE)
    /\ TwoKnightsReach(pos, mv)
    /\ OtherKnight(pos, mv) = 33



\* C11: pos_lan_to_move reads back the move that pos_move_to_lan wrote, for every
\* pseudo-legal move of every position pos_set accepts, in either mode.
C11_LanRoundTrip ==
    (ret = "true" /\ out # <<>>) =>
       LET back == pos_lan_to_move(pos, out)
       IN  back.ok /\ back.m = mv



\* The non-empty fields of a format record.
Fields(text) == SelectSeq(Split(text, " "), LAMBDA t : t # <<>>)

\* A placement field that overflows a rank past file h, has a number of ranks other
\* than 8, or holds an unrecognized piece letter.
PlacementMalformed(t) ==
    LET ranks == Split(t, "/")
    IN  \/ Len(ranks) # NB_RANK
        \/ \E i \in 1 .. Len(ranks) : RankWidth(ranks[i]) > NB_FILE
        \/ \E i \in 1 .. Len(t) :
              t[i] \notin {"n", "b", "r", "q", "k", "p", "N", "B", "R", "Q", "K", "P",
                           "1", "2", "3", "4", "5", "6", "7", "8", "/"}

\* A castling field with a letter K, Q, k or q of a side on whose back rank the
\* (well-formed) placement field puts no rook.
CastlingWithoutRook(f) ==
    /\ Len(f) >= 3
    /\ ~PlacementMalformed(f[1])
    /\ \E i \in 1 .. Len(f[3]) :
          /\ f[3][i] \in {"K", "Q", "k", "q"}
          /\ LET back == Split(f[1], "/")[IF isupper(f[3][i]) THEN NB_RANK ELSE 1]
             IN  Range(back) \cap {"R", "r"} = {}

\* An en-passant field that is neither "-" nor a square a1 .. h8.
EpMalformed(f) ==
    /\ Len(f) >= 4
    /\ f[4] # <<"-">>
    /\ ~ (/\ Len(f[4]) = 2
          /\ f[4][1] \in {"a", "b", "c", "d", "e", "f", "g", "h"}
          /\ f[4][2] \in {"1", "2", "3", "4", "5", "6", "7", "8"})

\* C12: pos_set returns false (no assertion trips, true is not returned) for every
\* record whose placement field overflows a rank, has a number of ranks other than 8
\* or holds an unrecognized letter, whose castling field names a side without a rook
\* on its back rank, or whose en-passant field is no square and not "-".
C12_MalformedRejected ==
    (ret # "none" /\ ply = 0 /\
       LET f == Fields(fen)
       IN  PlacementMalformed(f[1]) \/ CastlingWithoutRook(f) \/ EpMalformed(f))
    => ret = "false"



\* A step of pos_move that returned: the position before is pos, the move pos'.lastMove.
MoveStep == ply' = ply + 1 /\ ret' = "true"

\* C13: pos_move sets rule50 to 0 if the move is a pawn move or its destination holds
\* an enemy piece, and to the source's rule50 plus 1 otherwise (castling included);
\* fullMove grows by 1 exactly when Black moved.
C13_ClocksAfterMove ==
    [][MoveStep =>
         LET m == pos'.lastMove
             resets == \/ pos_piece_on(pos, m.from) = PAWN
                       \/ bb_test(pos.byColor[opposite(pos.turn)], m.to)
         IN  /\ pos'.rule50 = IF resets THEN 0 ELSE pos.rule50 + 1
             /\ pos'.fullMove = pos.fullMove + (IF pos.turn = BLACK THEN 1 ELSE 0)]_vars

\* A step of pos_move with a king move onto the mover's own rook that carries a
\* castling right.
CastlingStep ==
    /\ MoveStep
    /\ pos_piece_on(pos, pos'.lastMove.from) = KING
    /\ pos'.lastMove.to \in pos.castleRooks \cap pos_pieces_cp(pos, pos.turn, ROOK)

\* C14: castling puts the king on file g and the rook on file f of their rank when the
\* rook was on the king's right, on files c and d otherwise; the origin squares are
\* left unless the king or rook lands on them, every other piece stays, castleRooks
\* loses every square of the mover's back rank and keeps the opponent's.
C14_CastlingResult ==
    [][CastlingStep =>
         LET m == pos'.lastMove
             us == pos.turn
             them == opposite(us)
             rank == rank_of(m.from)
             kingTo == square_from(rank, IF m.to > m.from THEN FILE_G ELSE FILE_C)
             rookTo == square_from(rank, IF m.to > m.from THEN FILE_F ELSE FILE_D)
         IN  /\ pos_pieces_cp(pos', us, KING) = {kingTo}
             /\ pos_pieces_cp(pos', us, ROOK)
                  = (pos_pieces_cp(pos, us, ROOK) \ {m.to}) \cup {rookTo}
             /\ pos'.byColor[us] = (pos.byColor[us] \ {m.from, m.to}) \cup {kingTo, rookTo}
             /\ pos'.byColor[them] = pos.byColor[them]
             /\ \A p \in Pieces \ {KING, ROOK} : pos'.byPiece[p] = pos.byPiece[p]
             /\ pos'.castleRooks
                  = pos.castleRooks \ Rank(IF us = WHITE THEN RANK_1 ELSE RANK_8)
             /\ pos'.castleRooks \cap pos'.byColor[them]
                  = pos.castleRooks \cap pos.byColor[them]]_vars

\* C14 witness: Chess960, king f1 and rook g1: after f1xg1 the two have exchanged
\* squares and White has no castling right left.
C14_Witness ==
    /\ ret = "true" /\ ply = 2 /\ pos.chess960
    /\ pos.lastMove = move_build(5, 6, NB_PIECE)
    /\ pos_pieces_cp(pos, WHITE, KING) = {6}
    /\ pos_pieces_cp(pos, WHITE, ROOK) = {5}
    /\ pos.castleRooks \cap Rank(RANK_1) = {}


=============================================================================
